---- MODULE Spec2Model ----
(***************************************************************************)
(* Statement / Settlement reconciliation (src/reconciliation.py).          *)
(*                                                                         *)
(* Text is a sequence of one-character strings.  A spreadsheet cell is a   *)
(* record [k, s, n]: k = "nan" (blank), "str" (text s), "int" (integer n)  *)
(* or "float" (the integral float n, printed by Python as n followed by    *)
(* ".0").  Optional values are None / Some(v).                             *)
(***************************************************************************)
EXTENDS Integers, Sequences, FiniteSets, TLC

VARIABLES
    pc,              \* position of the run
    statement_file,  \* data rows of the Statement sheet (after the header)
    settlement_file, \* data rows of the Settlement sheet (after the header)
    statement_df,    \* the Statement DataFrame, one record per row
    settlement_df,   \* the Settlement DataFrame, one record per row
    error,           \* "none", or the exception that ended the run
    arg,             \* argument of the function under call
    ret              \* its return value

vars == <<pc, statement_file, settlement_file, statement_df, settlement_df,
          error, arg, ret>>

----------------------------------------------------------------------------
(* Bounds of the model *)

MaxPre == 2        \* characters generated before the digit run
MaxPost == 2       \* characters generated after the digit run
MaxRun == 10       \* longest generated digit run
MaxCellLen == 3    \* longest generated pin cell text
MaxRows == 3       \* data rows of the two sheets together

----------------------------------------------------------------------------
(* Python values *)

None == [some |-> FALSE]
Some(v) == [some |-> TRUE, v |-> v]

NaNCell == [k |-> "nan", s |-> <<>>, n |-> 0]
StrCell(s) == [k |-> "str", s |-> s, n |-> 0]
IntCell(n) == [k |-> "int", s |-> <<>>, n |-> n]
FloatCell(n) == [k |-> "float", s |-> <<>>, n |-> n]

isna(x) == x.k = "nan"

DigitChars == <<"0", "1", "2", "3", "4", "5", "6", "7", "8", "9">>
Digits == {DigitChars[i] : i \in 1..Len(DigitChars)}
Letters == {"a", "b", "c", "d", "e", "f", "g", "h", "i", "j", "k", "l", "m",
            "n", "o", "p", "q", "r", "s", "t", "u", "v", "w", "x", "y", "z",
            "A", "B", "C", "D", "E", "F", "G", "H", "I", "J", "K", "L", "M",
            "N", "O", "P", "Q", "R", "S", "T", "U", "V", "W", "X", "Y", "Z"}
WordChars == Digits \cup Letters \cup {"_"}
Whitespace == {" ", "\t", "\n", "\r"}

RECURSIVE NatToStr(_)
NatToStr(n) ==
    IF n < 10 THEN <<DigitChars[n + 1]>>
    ELSE NatToStr(n \div 10) \o <<DigitChars[(n % 10) + 1]>>

IntToStr(n) == IF n < 0 THEN <<"-">> \o NatToStr(-n) ELSE NatToStr(n)

DigitValue(c) == CHOOSE d \in 0..9 : DigitChars[d + 1] = c

RECURSIVE StrToNat(_)
StrToNat(s) ==
    IF s = <<>> THEN 0
    ELSE 10 * StrToNat(SubSeq(s, 1, Len(s) - 1)) + DigitValue(s[Len(s)])

\* str(x) of a cell value
str(x) ==
    CASE x.k = "str" -> x.s
      [] x.k = "int" -> IntToStr(x.n)
      [] x.k = "float" -> IntToStr(x.n) \o <<".", "0">>
      [] OTHER -> <<"n", "a", "n">>

RECURSIVE lstrip(_)
lstrip(s) ==
    IF s # <<>> /\ s[1] \in Whitespace THEN lstrip(Tail(s)) ELSE s

RECURSIVE rstrip(_)
rstrip(s) ==
    IF s # <<>> /\ s[Len(s)] \in Whitespace
    THEN rstrip(SubSeq(s, 1, Len(s) - 1)) ELSE s

strip(s) == lstrip(rstrip(s))

\* s.replace(c, '') for a one-character c
RECURSIVE remove(_, _)
remove(s, c) ==
    IF s = <<>> THEN <<>>
    ELSE (IF s[1] = c THEN <<>> ELSE <<s[1]>>) \o remove(Tail(s), c)

\* t in s
contains(s, t) ==
    \E i \in 1..(Len(s) - Len(t) + 1) : SubSeq(s, i, i + Len(t) - 1) = t

isdigit(s) == s # <<>> /\ \A i \in 1..Len(s) : s[i] \in Digits

----------------------------------------------------------------------------
(* extract_partner_pin *)

PinLen == 9

\* \b at position i of text (between text[i-1] and text[i])
WordBoundary(text, i) ==
    LET before == i > 1 /\ text[i - 1] \in WordChars
        after == i <= Len(text) /\ text[i] \in WordChars
    IN before # after

\* the start positions at which \b(\d{9})\s*$ matches
PinMatchStarts(text) ==
    {i \in 1..(Len(text) - PinLen + 1) :
        /\ WordBoundary(text, i)
        /\ \A j \in i..(i + PinLen - 1) : text[j] \in Digits
        /\ \A j \in (i + PinLen)..Len(text) : text[j] \in Whitespace}

\* re.search: the leftmost match, group 1
PinSearch(text) ==
    LET starts == PinMatchStarts(text) IN
    IF starts = {} THEN None
    ELSE LET i == CHOOSE a \in starts : \A b \in starts : a <= b
         IN Some(SubSeq(text, i, i + PinLen - 1))

\* faulty variant: the pattern without \b
extract_partner_pin_no_boundary(description) ==
    IF isna(description) THEN None
    ELSE LET text == str(description)
             starts == {i \in 1..(Len(text) - PinLen + 1) :
                 /\ \A j \in i..(i + PinLen - 1) : text[j] \in Digits
                 /\ \A j \in (i + PinLen)..Len(text) : text[j] \in Whitespace}
         IN IF starts = {} THEN None
            ELSE LET i == CHOOSE a \in starts : \A b \in starts : a <= b
                 IN Some(SubSeq(text, i, i + PinLen - 1))

\* faulty variant: only text cells are searched
extract_partner_pin_text_only(description) ==
    IF description.k # "str" THEN None ELSE PinSearch(description.s)

extract_partner_pin(description) ==
    IF isna(description) THEN None
    ELSE PinSearch(str(description))

----------------------------------------------------------------------------
(* Inputs of extract_partner_pin *)

RECURSIVE SeqsUpTo(_, _)
SeqsUpTo(S, n) ==
    IF n = 0 THEN {<<>>}
    ELSE LET shorter == SeqsUpTo(S, n - 1)
         IN shorter \cup {Append(s, c) : s \in shorter, c \in S}

\* a run of n digits: 1234567890123...
DigitRun(n) == [i \in 1..n |-> DigitChars[(i % 10) + 1]]

PreAlphabet == {"a", "_", " ", "-", "7"}
PostAlphabet == {" ", "\n", "x", "7"}

Descriptions ==
    {pre \o DigitRun(n) \o post :
        pre \in SeqsUpTo(PreAlphabet, MaxPre),
        n \in (PinLen - 1)..MaxRun,
        post \in SeqsUpTo(PostAlphabet, MaxPost)}

NumericDescriptions ==
    {IntCell(123456789), IntCell(12345678), IntCell(1234567890), IntCell(-123456789),
     IntCell(0), FloatCell(123456789)}

DescriptionCells ==
    {StrCell(d) : d \in Descriptions} \cup NumericDescriptions \cup {NaNCell}

NoTables ==
    /\ statement_file = <<>>
    /\ settlement_file = <<>>
    /\ statement_df = <<>>
    /\ settlement_df = <<>>
    /\ error = "none"

InitPin ==
    /\ pc = "call"
    /\ arg \in DescriptionCells
    /\ ret = None
    /\ NoTables

CallExtractPartnerPin ==
    /\ pc = "call"
    /\ ret' = extract_partner_pin(arg)
    /\ pc' = "return"
    /\ UNCHANGED <<arg, statement_file, settlement_file, statement_df,
                   settlement_df, error>>

NextPin == CallExtractPartnerPin

SpecPin == InitPin /\ [][NextPin]_vars

----------------------------------------------------------------------------
(* C6: for a text description, strip the trailing whitespace and take the   *)
(* maximal run of digits at its end.  extract_partner_pin returns a pin    *)
(* exactly when that run has 9 digits and is not preceded by a letter, a   *)
(* digit or an underscore (the run being maximal, never by a digit), and   *)
(* the pin is then that run; in every other case (a 9-digit run followed   *)
(* by other characters, a longer trailing run, a run glued to a word       *)
(* character) it returns none.                                             *)

RECURSIVE TrailingDigits(_)
TrailingDigits(t) ==
    IF t # <<>> /\ t[Len(t)] \in Digits
    THEN 1 + TrailingDigits(SubSeq(t, 1, Len(t) - 1)) ELSE 0

ExpectedPin(text) ==
    LET t == rstrip(text)
        r == TrailingDigits(t)
    IN IF /\ r = PinLen
          /\ (Len(t) = PinLen \/ t[Len(t) - PinLen] \notin (Letters \cup {"_"}))
       THEN Some(SubSeq(t, Len(t) - PinLen + 1, Len(t)))
       ELSE None

C6_ExtractTrailingPin ==
    (pc = "return" /\ arg.k = "str") => ret = ExpectedPin(arg.s)

\* a pin found after a separator and before trailing whitespace
C6_Witness ==
    /\ pc = "return"
    /\ arg = StrCell(<<"a", "-">> \o DigitRun(PinLen) \o <<" ", "\n">>)
    /\ ret = Some(DigitRun(PinLen))

----------------------------------------------------------------------------
(* C7: as stated, every non-text or blank input gives none. *)

C7_NonStringYieldsNone ==
    (pc = "return" /\ arg.k # "str") => ret = None

RECURSIVE Pow10(_)
Pow10(n) == IF n = 0 THEN 1 ELSE 10 * Pow10(n - 1)

Abs(n) == IF n < 0 THEN -n ELSE n

(* C7, amended: a blank cell gives none; an integer cell is converted to   *)
(* text and searched like any description, so it gives its digits as the   *)
(* pin exactly when it has 9 digits (with or without a minus sign) and     *)
(* none otherwise.                                                         *)
C7_BlankNoneIntegerSearched ==
    pc = "return" =>
        /\ arg.k = "nan" => ret = None
        /\ arg.k = "int" =>
            ret = IF Pow10(PinLen - 1) <= Abs(arg.n) /\ Abs(arg.n) < Pow10(PinLen)
                  THEN Some(NatToStr(Abs(arg.n)))
                  ELSE None

C7_Witness ==
    /\ pc = "return"
    /\ arg = IntCell(123456789)
    /\ ret = Some(DigitRun(PinLen))

----------------------------------------------------------------------------
(* _to_pin (process_settlement_file) *)

Returned(v) == [raised |-> "none", value |-> v]
Raised(e) == [raised |-> e, value |-> None]

\* float(s) accepts s, for s made of digits, '.' and '-' with a digit in it
FloatAccepts(s) ==
    LET body == IF s[1] = "-" THEN Tail(s) ELSE s
    IN /\ ~contains(body, <<"-">>)
       /\ Len(remove(body, ".")) = Len(body) - 1

\* int(float(s)): the integer part, truncated toward zero
IntOfFloat(s) ==
    LET neg == s[1] = "-"
        body == IF neg THEN Tail(s) ELSE s
        dot == CHOOSE i \in 1..Len(body) : body[i] = "."
        whole == StrToNat(SubSeq(body, 1, dot - 1))
    IN IF neg THEN -whole ELSE whole

_to_pin(x) ==
    IF isna(x) THEN Returned(None)
    ELSE LET s == strip(str(x)) IN
         IF contains(s, <<".">>) /\ isdigit(remove(remove(s, "."), "-"))
         THEN IF FloatAccepts(s)
              THEN Returned(Some(IntToStr(IntOfFloat(s))))
              ELSE Raised("ValueError")
         ELSE IF s # <<>> /\ s # <<"n", "a", "n">>
              THEN Returned(Some(s))
              ELSE Returned(None)

PinCellAlphabet == {"1", "0", ".", "-", " ", "n", "a"}

PinCells ==
    {StrCell(s) : s \in SeqsUpTo(PinCellAlphabet, MaxCellLen)}
    \cup {StrCell(DigitRun(PinLen) \o <<".", "0">>),
          StrCell(<<" ">> \o DigitRun(PinLen) \o <<" ">>),
          StrCell(<<"1", ".", "2", ".", "3">>),
          FloatCell(123456789), IntCell(123456789), NaNCell}

InitToPin ==
    /\ pc = "call"
    /\ arg \in PinCells
    /\ ret = Returned(None)
    /\ NoTables

CallToPin ==
    /\ pc = "call"
    /\ ret' = _to_pin(arg)
    /\ pc' = "return"
    /\ UNCHANGED <<arg, statement_file, settlement_file, statement_df,
                   settlement_df, error>>

NextToPin == CallToPin

SpecToPin == InitToPin /\ [][NextToPin]_vars

(* C8: _to_pin raises no error on any cell, and returns none for a blank   *)
(* cell, for empty text and for the text 'nan', the integer string form    *)
(* for text made of digits, dots and minus signs that holds a dot, and     *)
(* the trimmed text otherwise.                                             *)
C8_ToPinNeverRaises ==
    pc = "return" =>
        /\ ret.raised = "none"
        /\ (isna(arg) \/ strip(str(arg)) \in {<<>>, <<"n", "a", "n">>})
               => ret.value = None
        /\ (~isna(arg) /\ strip(str(arg)) \notin {<<>>, <<"n", "a", "n">>})
               => ret.value # None

----------------------------------------------------------------------------
(* Numbers: a float is kept as an exact fraction num/den (den > 0, lowest  *)
(* terms), or is NaN.                                                      *)

NaN == [nan |-> TRUE, num |-> 0, den |-> 1]

RECURSIVE GCD(_, _)
GCD(a, b) == IF b = 0 THEN a ELSE GCD(b, a % b)

Rat(n, d) ==
    LET g == GCD(Abs(n), Abs(d))
        sign == IF d < 0 THEN -1 ELSE 1
    IN [nan |-> FALSE, num |-> sign * (n \div g), den |-> sign * (d \div g)]

Zero == Rat(0, 1)

RatAdd(a, b) ==
    IF a.nan \/ b.nan THEN NaN
    ELSE Rat(a.num * b.den + b.num * a.den, a.den * b.den)

RatSub(a, b) ==
    IF a.nan \/ b.nan THEN NaN
    ELSE Rat(a.num * b.den - b.num * a.den, a.den * b.den)

\* float division inside a pandas Series: x / NaN is NaN
RatDiv(a, b) ==
    IF a.nan \/ b.nan THEN NaN
    ELSE Rat(a.num * b.den, a.den * b.num)

\* the number a text holds for pd.to_numeric: [-]digits[.digits] between
\* optional whitespace; anything else is coerced to NaN
ParseNumber(s) ==
    LET t == strip(s)
        neg == t # <<>> /\ t[1] = "-"
        body == IF neg THEN Tail(t) ELSE t
        digits == remove(body, ".")
        dots == Len(body) - Len(digits)
    IN IF ~isdigit(digits) \/ dots > 1 THEN NaN
       ELSE LET dot == IF dots = 0 THEN Len(body) + 1
                       ELSE CHOOSE i \in 1..Len(body) : body[i] = "."
                frac == Len(body) + 1 - dot - dots
                n == StrToNat(digits)
            IN Rat(IF neg THEN -n ELSE n, Pow10(frac))

\* pd.to_numeric(x, errors='coerce') of one cell
to_numeric(x) ==
    CASE x.k = "str" -> ParseNumber(x.s)
      [] x.k \in {"int", "float"} -> Rat(x.n, 1)
      [] OTHER -> NaN

\* faulty variant: commas are not stripped from the payout
Amount_USD_keep_commas(payout_cell, rate_cell) ==
    LET payout == to_numeric(StrCell(str(payout_cell)))
        api_rate == to_numeric(rate_cell)
        replaced == IF ~api_rate.nan /\ api_rate.num = 0 THEN NaN ELSE api_rate
    IN RatDiv(payout, replaced)

\* payout / api_rate.replace(0, float('nan')) for one row
Amount_USD(payout_cell, rate_cell) ==
    LET payout == to_numeric(StrCell(remove(str(payout_cell), ",")))
        api_rate == to_numeric(rate_cell)
        replaced == IF ~api_rate.nan /\ api_rate.num = 0 THEN NaN ELSE api_rate
    IN RatDiv(payout, replaced)

----------------------------------------------------------------------------
(* process_statement_file *)

ShouldReconcile == "Should Reconcile"
ShouldNotReconcile == "Should Not Reconcile"

Cancel == <<"C", "a", "n", "c", "e", "l">>
DollarReceived ==
    <<"D", "o", "l", "l", "a", "r", " ", "R", "e", "c", "e", "i", "v", "e", "d">>

\* the pins value_counts() counts more than once
duplicated_pins(df) ==
    {df[i].PartnerPin.v : i \in {j \in 1..Len(df) :
        /\ df[j].PartnerPin # None
        /\ Cardinality({k \in 1..Len(df) : df[k].PartnerPin = df[j].PartnerPin}) > 1}}

txn_type(row) == IF ~isna(row.Type) THEN strip(str(row.Type)) ELSE <<>>

\* faulty variant: the 'Dollar Received' test comes first
get_statement_tag_dollar_first(row, dups) ==
    IF row.PartnerPin # None /\ row.PartnerPin.v \in dups
    THEN IF contains(txn_type(row), DollarReceived) THEN ShouldNotReconcile
         ELSE ShouldReconcile
    ELSE ShouldReconcile

get_statement_tag(row, dups) ==
    IF row.PartnerPin # None /\ row.PartnerPin.v \in dups
    THEN IF contains(txn_type(row), Cancel) THEN ShouldReconcile
         ELSE IF contains(txn_type(row), DollarReceived) THEN ShouldNotReconcile
         ELSE ShouldReconcile
    ELSE ShouldReconcile

StatementColumns(raw) ==
    [Description |-> raw.Description,
     PartnerPin |-> extract_partner_pin(raw.Description),
     Type |-> raw.Type,
     Settle_Amt |-> raw.Settle_Amt,
     ReconcileTag |-> "",
     Classification |-> None,
     MatchStatus |-> None,
     Variance |-> None]

process_statement_file(file) ==
    LET df == [i \in 1..Len(file) |-> StatementColumns(file[i])]
        dups == duplicated_pins(df)
    IN [i \in 1..Len(df) |->
           [df[i] EXCEPT !.ReconcileTag = get_statement_tag(df[i], dups)]]

----------------------------------------------------------------------------
(* process_settlement_file *)

\* faulty variant: the Statement's 'Dollar Received' branch copied over
get_settlement_tag_like_statement(row, dups) == get_statement_tag(row, dups)

get_settlement_tag(row, dups) ==
    IF row.PartnerPin # None /\ row.PartnerPin.v \in dups
    THEN IF contains(txn_type(row), Cancel) THEN ShouldReconcile
         ELSE ShouldReconcile
    ELSE ShouldReconcile

SettlementColumns(raw) ==
    [PinNumber |-> raw.PinNumber,
     PartnerPinCell |-> raw.PartnerPinCell,
     PayoutRoundAmt |-> raw.PayoutRoundAmt,
     APIRate |-> raw.APIRate,
     Amount_USD |-> Amount_USD(raw.PayoutRoundAmt, raw.APIRate),
     PartnerPin |-> _to_pin(raw.PartnerPinCell).value,
     MatchPin |-> _to_pin(raw.PinNumber).value,
     Type |-> raw.Type,
     ReconcileTag |-> "",
     Classification |-> None,
     MatchStatus |-> None,
     Variance |-> None]

\* the exception _to_pin raises on some row, "none" if it raises on no row
settlement_file_error(file) ==
    IF \E i \in 1..Len(file) :
           \/ _to_pin(file[i].PartnerPinCell).raised # "none"
           \/ _to_pin(file[i].PinNumber).raised # "none"
    THEN "ValueError" ELSE "none"

process_settlement_file(file) ==
    LET df == [i \in 1..Len(file) |-> SettlementColumns(file[i])]
        dups == duplicated_pins(df)
    IN [i \in 1..Len(df) |->
           [df[i] EXCEPT !.ReconcileTag = get_settlement_tag(df[i], dups)]]

----------------------------------------------------------------------------
(* reconcile_files *)

_norm_pin(pin) ==
    IF pin = None THEN None
    ELSE LET s == strip(pin.v)
         IN IF s # <<>> /\ s # <<"n", "a", "n">> THEN Some(s) ELSE None

\* the normalized, non-null pins of the rows tagged Should Reconcile
eligible_pins(df, col) ==
    {_norm_pin(Some(strip(df[i][col].v))).v : i \in {j \in 1..Len(df) :
        /\ df[j].ReconcileTag = ShouldReconcile
        /\ df[j][col] # None
        /\ _norm_pin(Some(strip(df[j][col].v))) # None}}

stmt_pins(sdf) == eligible_pins(sdf, "PartnerPin")
sett_pins(tdf) == eligible_pins(tdf, "MatchPin")

both(sdf, tdf) == stmt_pins(sdf) \cap sett_pins(tdf)
only_settlement(sdf, tdf) == sett_pins(tdf) \ stmt_pins(sdf)

\* faulty variant: the matched pins are not taken out
only_statement_keep_matched(sdf, tdf) == stmt_pins(sdf)

only_statement(sdf, tdf) == stmt_pins(sdf) \ sett_pins(tdf)

InSet(pin, S) == pin # None /\ pin.v \in S

\* faulty variant: rows not tagged Should Reconcile are left unclassified
get_stmt_classification_eligible_only(row, sdf, tdf) ==
    LET pin == _norm_pin(row.PartnerPin) IN
    IF row.ReconcileTag # ShouldReconcile THEN None
    ELSE IF InSet(pin, both(sdf, tdf)) THEN Some(5)
    ELSE IF InSet(pin, only_statement(sdf, tdf)) THEN Some(7)
    ELSE None

get_stmt_classification(row, sdf, tdf) ==
    LET pin == _norm_pin(row.PartnerPin) IN
    IF InSet(pin, both(sdf, tdf)) THEN Some(5)
    ELSE IF InSet(pin, only_statement(sdf, tdf)) THEN Some(7)
    ELSE None

get_sett_classification(row, sdf, tdf) ==
    LET pin == _norm_pin(row.MatchPin) IN
    IF InSet(pin, both(sdf, tdf)) THEN Some(5)
    ELSE IF InSet(pin, only_settlement(sdf, tdf)) THEN Some(6)
    ELSE None

PresentInBoth == "Present in Both"
StatementOnlyLabel ==
    "Not Present in the Settlement File but Present in the Partner Statement File"
SettlementOnlyLabel ==
    "Present in the Settlement File but not in the Partner Statement File"

stmt_match_status(c) ==
    IF c = Some(5) THEN Some(PresentInBoth)
    ELSE IF c = Some(7) THEN Some(StatementOnlyLabel) ELSE None

sett_match_status(c) ==
    IF c = Some(5) THEN Some(PresentInBoth)
    ELSE IF c = Some(6) THEN Some(SettlementOnlyLabel) ELSE None

\* the rows of df selected by (norm == pin) & (Classification == 5)
mask(df, col, pin) ==
    {i \in 1..Len(df) :
        /\ _norm_pin(df[i][col]) = Some(pin)
        /\ df[i].Classification = Some(5)}

\* Series.sum() of a float column over the rows idx: NaN is skipped
RECURSIVE float_sum(_, _)
float_sum(df, idx) ==
    IF idx = {} THEN Zero
    ELSE LET i == CHOOSE a \in idx : \A b \in idx : a <= b
             x == df[i].Amount_USD
         IN RatAdd(IF x.nan THEN Zero ELSE x, float_sum(df, idx \ {i}))

\* Series.sum() of the object column Settle_Amt over the rows idx: blank
\* cells count as 0 and the cells are added with Python's +, so text among
\* numbers raises TypeError and text alone is concatenated
RECURSIVE number_sum(_, _)
number_sum(df, idx) ==
    IF idx = {} THEN Zero
    ELSE LET i == CHOOSE a \in idx : \A b \in idx : a <= b
         IN RatAdd(to_numeric(df[i].Settle_Amt), number_sum(df, idx \ {i}))

object_sum(df, idx) ==
    LET texts == {i \in idx : df[i].Settle_Amt.k = "str"}
        blanks == {i \in idx : isna(df[i].Settle_Amt)}
    IN IF texts = {} THEN [raised |-> "none", text |-> FALSE,
                           value |-> number_sum(df, idx \ blanks)]
       ELSE IF texts = idx THEN [raised |-> "none", text |-> TRUE, value |-> Zero]
       ELSE [raised |-> "TypeError", text |-> FALSE, value |-> Zero]

\* faulty variant: the difference taken the other way round
variance_swapped(sdf, tdf, pin) ==
    LET stmt_amt == object_sum(sdf, mask(sdf, "PartnerPin", pin))
        sett_amt == float_sum(tdf, mask(tdf, "MatchPin", pin))
    IN IF stmt_amt.raised # "none" \/ stmt_amt.text THEN Raised("TypeError")
       ELSE Returned(Some(RatSub(stmt_amt.value, sett_amt)))

\* var = sett_amt - stmt_amt for one pin of both
variance(sdf, tdf, pin) ==
    LET stmt_amt == object_sum(sdf, mask(sdf, "PartnerPin", pin))
        sett_amt == float_sum(tdf, mask(tdf, "MatchPin", pin))
    IN IF stmt_amt.raised # "none" \/ stmt_amt.text THEN Raised("TypeError")
       ELSE Returned(Some(RatSub(sett_amt, stmt_amt.value)))

\* the tables after lines 153-166: Classification and MatchStatus set
classified_stmt(sdf, tdf) ==
    [i \in 1..Len(sdf) |->
        LET c == get_stmt_classification(sdf[i], sdf, tdf)
        IN [sdf[i] EXCEPT !.Classification = c,
                          !.MatchStatus = stmt_match_status(c)]]

classified_sett(sdf, tdf) ==
    [i \in 1..Len(tdf) |->
        LET c == get_sett_classification(tdf[i], sdf, tdf)
        IN [tdf[i] EXCEPT !.Classification = c,
                          !.MatchStatus = sett_match_status(c)]]

\* faulty variant: df['Variance'] = var, the mask left out
set_variance_whole_column(df, idx, var) ==
    [i \in 1..Len(df) |-> [df[i] EXCEPT !.Variance = Some(var)]]

\* df.loc[mask, 'Variance'] = var
set_variance(df, idx, var) ==
    [i \in 1..Len(df) |->
        IF i \in idx THEN [df[i] EXCEPT !.Variance = Some(var)] ELSE df[i]]

\* the loop "for pin in both" over the pins still to visit; a pin whose
\* variance raises is reported by reconcile_error
RECURSIVE variance_loop(_, _, _)
variance_loop(pins, sdf, tdf) ==
    IF pins = {} THEN <<sdf, tdf>>
    ELSE LET pin == CHOOSE x \in pins : TRUE
             var == variance(sdf, tdf, pin).value.v
         IN variance_loop(pins \ {pin},
                set_variance(sdf, mask(sdf, "PartnerPin", pin), var),
                set_variance(tdf, mask(tdf, "MatchPin", pin), var))

reconcile_error(sdf, tdf) ==
    LET cs == classified_stmt(sdf, tdf)
        ct == classified_sett(sdf, tdf)
    IN IF \E pin \in both(sdf, tdf) : variance(cs, ct, pin).raised # "none"
       THEN "TypeError" ELSE "none"

reconcile_files(sdf, tdf) ==
    variance_loop(both(sdf, tdf), classified_stmt(sdf, tdf), classified_sett(sdf, tdf))

----------------------------------------------------------------------------
(* run_full_reconciliation *)

ProcessStatementFile ==
    /\ pc = "load"
    /\ statement_df' = process_statement_file(statement_file)
    /\ pc' = "statement"
    /\ UNCHANGED <<statement_file, settlement_file, settlement_df, error, arg, ret>>

ProcessSettlementFile ==
    /\ pc = "statement"
    /\ LET e == settlement_file_error(settlement_file) IN
       IF e = "none"
       THEN /\ settlement_df' = process_settlement_file(settlement_file)
            /\ pc' = "settlement"
            /\ error' = error
       ELSE /\ settlement_df' = settlement_df
            /\ pc' = "failed"
            /\ error' = e
    /\ UNCHANGED <<statement_file, settlement_file, statement_df, arg, ret>>

\* on an exception no table is returned to the caller
ReconcileFiles ==
    /\ pc = "settlement"
    /\ LET e == reconcile_error(statement_df, settlement_df) IN
       IF e = "none"
       THEN LET out == reconcile_files(statement_df, settlement_df) IN
            /\ statement_df' = out[1]
            /\ settlement_df' = out[2]
            /\ pc' = "done"
            /\ error' = error
       ELSE /\ UNCHANGED <<statement_df, settlement_df>>
            /\ pc' = "failed"
            /\ error' = e
    /\ UNCHANGED <<statement_file, settlement_file, arg, ret>>

Next == ProcessStatementFile \/ ProcessSettlementFile \/ ReconcileFiles

----------------------------------------------------------------------------
(* Input sheets.  A sheet has at least one data row: on an empty frame     *)
(* DataFrame.apply(axis=1) returns a frame, not a column.                  *)

StmtRow(d, t, a) == [Description |-> d, Type |-> t, Settle_Amt |-> a]

SettRow(b, d, t, p, r) ==
    [PinNumber |-> b, PartnerPinCell |-> d, Type |-> t,
     PayoutRoundAmt |-> p, APIRate |-> r]

Sheets(rows, n) == UNION {[1..k -> rows] : k \in 1..n}

Pin1 == DigitRun(PinLen)
Pin2 == <<"9", "8", "7", "6", "5", "4", "3", "2", "1">>
LongPin == DigitRun(PinLen + 1)

OrderCancel == StrCell(<<"O", "r", "d", "e", "r", " ">> \o Cancel)
DollarReceivedConfirmed ==
    StrCell(DollarReceived \o <<" ", "C", "o", "n", "f", "i", "r", "m", "e", "d">>)
Unparseable == StrCell(<<"a", "b", "c">>)
Payout1050 == StrCell(<<"1", ",", "0", "5", "0", ".", "0", "0">>)

Amounts == {IntCell(100), NaNCell, Unparseable}

\* every description and type with a numeric amount, and every description
\* and amount of a cancelled order
StmtRows ==
    LET descriptions == {StrCell(<<"T", "X", "N", " ">> \o Pin1),
                         StrCell(<<"R", "E", "F", "-">> \o Pin2 \o <<" ">>),
                         StrCell(<<"f", "e", "e">>)}
    IN {StmtRow(d, t, IntCell(100)) :
            d \in descriptions, t \in {OrderCancel, DollarReceivedConfirmed}}
       \cup {StmtRow(d, OrderCancel, a) : d \in descriptions, a \in Amounts}

SettRows ==
    {SettRow(b, StrCell(LongPin), OrderCancel, Payout1050, r) :
        b \in {FloatCell(123456789), StrCell(Pin2), NaNCell},
        r \in {IntCell(10), IntCell(0)}}

NoCall == arg = NaNCell /\ ret = None

InitRun(stmt_rows, sett_rows) ==
    /\ pc = "load"
    /\ statement_file \in Sheets(stmt_rows, MaxRows - 1)
    /\ settlement_file \in Sheets(sett_rows, MaxRows - Len(statement_file))
    /\ statement_df = <<>>
    /\ settlement_df = <<>>
    /\ error = "none"
    /\ NoCall

Init == InitRun(StmtRows, SettRows)

Spec == Init /\ [][Next]_vars

----------------------------------------------------------------------------
(* The two loaders alone, over every kind of transaction type *)

DollarReceivedCancel == StrCell(DollarReceived \o <<" ">> \o Cancel)
Payment == StrCell(<<"P", "a", "y", "m", "e", "n", "t">>)

StmtTagRows ==
    {StmtRow(d, t, IntCell(100)) :
        d \in {StrCell(<<"T", "X", "N", " ">> \o Pin1), StrCell(<<"f", "e", "e">>)},
        t \in {OrderCancel, DollarReceivedConfirmed, DollarReceivedCancel,
               Payment, NaNCell}}

SettTagRows ==
    {SettRow(FloatCell(123456789), d, t, Payout1050, IntCell(10)) :
        d \in {StrCell(LongPin), StrCell(LongPin \o <<".", "0">>), NaNCell},
        t \in {OrderCancel, DollarReceivedConfirmed, NaNCell}}

InitTag == InitRun(StmtTagRows, SettTagRows)

NextTag == ProcessStatementFile \/ ProcessSettlementFile

SpecTag == InitTag /\ [][NextTag]_vars

(* C4: process_statement_file tags a row Should Not Reconcile exactly when *)
(* its pin is not null, at least two Statement rows carry that pin, and    *)
(* its type contains 'Dollar Received' and does not contain 'Cancel';      *)
(* every other row is tagged Should Reconcile.                             *)
C4_PinCount(i) ==
    Cardinality({j \in 1..Len(statement_df) :
        statement_df[j].PartnerPin = statement_df[i].PartnerPin})

C4_StatementTag ==
    pc \in {"statement", "settlement"} =>
        \A i \in 1..Len(statement_df) :
            LET row == statement_df[i]
                ty == IF row.Type.k = "str" THEN row.Type.s ELSE <<>>
                excluded == /\ row.PartnerPin # None
                            /\ C4_PinCount(i) >= 2
                            /\ contains(ty, DollarReceived)
                            /\ ~contains(ty, Cancel)
            IN row.ReconcileTag = IF excluded THEN ShouldNotReconcile
                                  ELSE ShouldReconcile

\* a duplicated pin with one row excluded and a 'Dollar Received Cancel' row kept
C4_Witness ==
    /\ pc = "statement"
    /\ \E i, j \in 1..Len(statement_df) :
        /\ i # j
        /\ statement_df[i].PartnerPin = Some(Pin1)
        /\ statement_df[j].PartnerPin = Some(Pin1)
        /\ statement_df[i].Type = DollarReceivedConfirmed
        /\ statement_df[i].ReconcileTag = ShouldNotReconcile
        /\ statement_df[j].Type = DollarReceivedCancel
        /\ statement_df[j].ReconcileTag = ShouldReconcile

(* C5: process_settlement_file tags every Settlement row Should Reconcile, *)
(* duplicated or not and whatever its type; once a table is tagged, the    *)
(* tag of each of its rows is one of the two enum values.                  *)
C5_SettlementTag ==
    /\ pc = "settlement" =>
        \A i \in 1..Len(settlement_df) :
            settlement_df[i].ReconcileTag = ShouldReconcile
    /\ pc \in {"statement", "settlement"} =>
        \A i \in 1..Len(statement_df) :
            statement_df[i].ReconcileTag \in {ShouldReconcile, ShouldNotReconcile}

\* a duplicated Settlement pin on a 'Dollar Received' row
C5_Witness ==
    /\ pc = "settlement"
    /\ \E i, j \in 1..Len(settlement_df) :
        /\ i # j
        /\ settlement_df[i].PartnerPin = Some(LongPin)
        /\ settlement_df[j].PartnerPin = Some(LongPin)
        /\ settlement_df[i].Type = DollarReceivedConfirmed
        /\ settlement_df[i].ReconcileTag = ShouldReconcile

----------------------------------------------------------------------------
(* Claims about the whole run *)

StmtEligible(p) ==
    \E j \in 1..Len(statement_df) :
        /\ statement_df[j].ReconcileTag = ShouldReconcile
        /\ statement_df[j].PartnerPin = p

SettEligible(p) ==
    \E j \in 1..Len(settlement_df) :
        /\ settlement_df[j].ReconcileTag = ShouldReconcile
        /\ settlement_df[j].MatchPin = p

(* C1: after reconcile_files a Statement row is classified 5 when its pin  *)
(* is carried by an eligible Statement row and by an eligible Settlement   *)
(* row (as match_pin), 7 when it is carried by an eligible Statement row   *)
(* only, and null otherwise; a Settlement row is classified 5 or 6 in the  *)
(* same way by its match_pin; the row's own reconcile_tag plays no part.   *)
C1_ClassifiedByMembership ==
    pc = "done" =>
        /\ \A i \in 1..Len(statement_df) :
            LET p == statement_df[i].PartnerPin IN
            statement_df[i].Classification =
                IF p # None /\ StmtEligible(p) /\ SettEligible(p) THEN Some(5)
                ELSE IF p # None /\ StmtEligible(p) THEN Some(7)
                ELSE None
        /\ \A i \in 1..Len(settlement_df) :
            LET p == settlement_df[i].MatchPin IN
            settlement_df[i].Classification =
                IF p # None /\ StmtEligible(p) /\ SettEligible(p) THEN Some(5)
                ELSE IF p # None /\ SettEligible(p) THEN Some(6)
                ELSE None

\* a Should-Not-Reconcile Statement row classified 5
C1_Witness ==
    /\ pc = "done"
    /\ \E i \in 1..Len(statement_df) :
        /\ statement_df[i].ReconcileTag = ShouldNotReconcile
        /\ statement_df[i].Classification = Some(5)

(* C2: after run_full_reconciliation every row whose reconcile_tag is not  *)
(* Should Reconcile has classification null, and so has every row with no  *)
(* identifier.                                                             *)
C2_IneligibleUnclassified ==
    pc = "done" =>
        /\ \A i \in 1..Len(statement_df) :
            (\/ statement_df[i].ReconcileTag # ShouldReconcile
             \/ statement_df[i].PartnerPin = None)
                => statement_df[i].Classification = None
        /\ \A i \in 1..Len(settlement_df) :
            (\/ settlement_df[i].ReconcileTag # ShouldReconcile
             \/ settlement_df[i].MatchPin = None)
                => settlement_df[i].Classification = None

(* C3: after reconcile_files, for every identifier, every Statement row    *)
(* and every Settlement row with that identifier and classification 5      *)
(* carries the same variance: the sum of Amount_USD over the Settlement    *)
(* rows with that match_pin and classification 5 minus the sum of          *)
(* Settle_Amt over the Statement rows with that partner_pin and            *)
(* classification 5, each row adding its own amount (a missing amount      *)
(* adds nothing).                                                          *)
RECURSIVE C3_SettlementSum(_, _)
C3_SettlementSum(n, p) ==
    IF n = 0 THEN Zero
    ELSE LET row == settlement_df[n]
             add == IF /\ row.MatchPin = p
                       /\ row.Classification = Some(5)
                       /\ ~row.Amount_USD.nan
                    THEN row.Amount_USD ELSE Zero
         IN RatAdd(C3_SettlementSum(n - 1, p), add)

RECURSIVE C3_StatementSum(_, _)
C3_StatementSum(n, p) ==
    IF n = 0 THEN Zero
    ELSE LET row == statement_df[n]
             add == IF /\ row.PartnerPin = p
                       /\ row.Classification = Some(5)
                       /\ row.Settle_Amt.k = "int"
                    THEN Rat(row.Settle_Amt.n, 1) ELSE Zero
         IN RatAdd(C3_StatementSum(n - 1, p), add)

C3_Expected(p) ==
    Some(RatSub(C3_SettlementSum(Len(settlement_df), p),
                C3_StatementSum(Len(statement_df), p)))

C3_VarianceBroadcast ==
    pc = "done" =>
        /\ \A i \in 1..Len(statement_df) :
            statement_df[i].Classification = Some(5)
                => statement_df[i].Variance = C3_Expected(statement_df[i].PartnerPin)
        /\ \A i \in 1..Len(settlement_df) :
            settlement_df[i].Classification = Some(5)
                => settlement_df[i].Variance = C3_Expected(settlement_df[i].MatchPin)

\* two Statement rows of 100 and one Settlement row of 105: -95 on all three
C3_Witness ==
    /\ pc = "done"
    /\ Len(statement_df) = 2
    /\ Len(settlement_df) = 1
    /\ \A i \in 1..2 :
        /\ statement_df[i].PartnerPin = Some(Pin1)
        /\ statement_df[i].Settle_Amt = IntCell(100)
        /\ statement_df[i].Classification = Some(5)
        /\ statement_df[i].Variance = Some(Rat(-95, 1))
    /\ settlement_df[1].Amount_USD = Rat(105, 1)
    /\ settlement_df[1].Variance = Some(Rat(-95, 1))

(* C10: an unparseable numeric cell never aborts the run.                  *)
C10_RunCompletes ==
    pc # "failed" /\ error = "none"

----------------------------------------------------------------------------
(* The run over every kind of payout and rate cell *)

Payout10_5 == StrCell(<<"1", "0", ".", "5">>)

StmtAmountRows ==
    {StmtRow(StrCell(<<"T", "X", "N", " ">> \o Pin1), OrderCancel, a) :
        a \in {IntCell(100), NaNCell}}

SettAmountRows ==
    {SettRow(b, StrCell(LongPin), OrderCancel, p, r) :
        b \in {FloatCell(123456789), NaNCell},
        p \in {Payout1050, Payout10_5, Unparseable},
        r \in {IntCell(10), IntCell(0), Unparseable}}

InitAmounts == InitRun(StmtAmountRows, SettAmountRows)

SpecAmounts == InitAmounts /\ [][Next]_vars

(* C9: a Settlement row's Amount_USD is missing whenever its api_rate is 0 *)
(* or unparseable or its payout is unparseable once the commas are         *)
(* stripped, and is payout / rate otherwise, and no run fails; after       *)
(* reconcile_files the variance of every matched Settlement row is a       *)
(* number, the missing amounts of its identifier adding nothing to the     *)
(* sum.                                                                    *)
C9_Payout(cell) ==
    CASE cell = Payout1050 -> Some(Rat(1050, 1))
      [] cell = Payout10_5 -> Some(Rat(21, 2))
      [] OTHER -> None

C9_Rate(cell) ==
    CASE cell = IntCell(10) -> Some(Rat(10, 1))
      [] cell = IntCell(0) -> Some(Zero)
      [] OTHER -> None

C9_MissingAmount ==
    /\ pc # "failed"
    /\ pc \in {"settlement", "done"} =>
        \A i \in 1..Len(settlement_df) :
            LET row == settlement_df[i]
                p == C9_Payout(row.PayoutRoundAmt)
                r == C9_Rate(row.APIRate)
                a == row.Amount_USD
            IN IF p = None \/ r = None \/ r = Some(Zero) THEN a = NaN
               ELSE /\ ~a.nan
                    /\ a.num * r.v.num * p.v.den = p.v.num * r.v.den * a.den
    /\ pc = "done" =>
        \A i \in 1..Len(settlement_df) :
            settlement_df[i].Classification = Some(5) =>
                /\ settlement_df[i].Variance # None
                /\ ~settlement_df[i].Variance.v.nan
                /\ settlement_df[i].Variance = C3_Expected(settlement_df[i].MatchPin)

\* a rate of 0 beside an amount of 105 for the same identifier: variance 5
C9_Witness ==
    /\ pc = "done"
    /\ Len(statement_df) = 1
    /\ statement_df[1].Settle_Amt = IntCell(100)
    /\ Len(settlement_df) = 2
    /\ settlement_df[1].APIRate = IntCell(0)
    /\ settlement_df[1].Amount_USD = NaN
    /\ settlement_df[2].Amount_USD = Rat(105, 1)
    /\ \A i \in 1..2 :
        /\ settlement_df[i].Classification = Some(5)
        /\ settlement_df[i].Variance = Some(Rat(5, 1))

----------------------------------------------------------------------------
(* get_classified_transactions *)

NoArg == [k |-> "none", n |-> 0, l |-> <<>>]
IntArg(n) == [k |-> "int", n |-> n, l |-> <<>>]
ListArg(l) == [k |-> "list", n |-> 0, l |-> l]

\* the list the argument stands for: [5, 6, 7] by default, [n] for an int
classification_list(classification) ==
    CASE classification.k = "none" -> <<5, 6, 7>>
      [] classification.k = "int" -> <<classification.n>>
      [] OTHER -> classification.l

\* Series.isin for one cell of the Classification column
isin(c, values) == c # None /\ \E i \in 1..Len(values) : values[i] = c.v

\* faulty variant: the rows without a classification are returned too
get_classified_transactions_keep_null(sdf, tdf, classification) ==
    LET values == classification_list(classification)
    IN <<SelectSeq(sdf, LAMBDA r : r.Classification = None \/ isin(r.Classification, values)),
         SelectSeq(tdf, LAMBDA r : r.Classification = None \/ isin(r.Classification, values))>>

get_classified_transactions(sdf, tdf, classification) ==
    LET values == classification_list(classification)
    IN <<SelectSeq(sdf, LAMBDA r : isin(r.Classification, values)),
         SelectSeq(tdf, LAMBDA r : isin(r.Classification, values))>>

ClassificationArgs ==
    {NoArg, IntArg(5), IntArg(6), IntArg(7),
     ListArg(<<>>), ListArg(<<5, 7>>), ListArg(<<7, 6>>)}

\* the subsets are copies: the tables themselves are left as they are
GetClassifiedTransactions ==
    /\ pc = "done"
    /\ \E c \in ClassificationArgs :
        /\ arg' = c
        /\ ret' = get_classified_transactions(statement_df, settlement_df, c)
    /\ pc' = "queried"
    /\ UNCHANGED <<statement_file, settlement_file, statement_df, settlement_df, error>>

NextQuery == Next \/ GetClassifiedTransactions

SpecQuery == Init /\ [][NextQuery]_vars

(* C11: get_classified_transactions returns, for each table, exactly the   *)
(* rows whose classification is one of the requested values, in their      *)
(* original order, and leaves both tables as they were; rows without a     *)
(* classification are never returned; the Statement subset for 6 and the   *)
(* Settlement subset for 7 are empty.                                      *)
C11_Requested(a) ==
    CASE a.k = "none" -> {5, 6, 7}
      [] a.k = "int" -> {a.n}
      [] OTHER -> {a.l[i] : i \in 1..Len(a.l)}

C11_Hits(df, C) ==
    {i \in 1..Len(df) : df[i].Classification # None /\ df[i].Classification.v \in C}

\* sub holds the rows of C11_Hits, the k-th smallest index at place k
C11_Exactly(sub, df, C) ==
    /\ Len(sub) = Cardinality(C11_Hits(df, C))
    /\ \A i \in C11_Hits(df, C) :
        sub[Cardinality({j \in C11_Hits(df, C) : j <= i})] = df[i]

C11_ClassifiedSubsets ==
    [][(pc = "done" /\ pc' = "queried") =>
        /\ statement_df' = statement_df
        /\ settlement_df' = settlement_df
        /\ C11_Exactly(ret'[1], statement_df, C11_Requested(arg'))
        /\ C11_Exactly(ret'[2], settlement_df, C11_Requested(arg'))
        /\ arg' = IntArg(6) => ret'[1] = <<>>
        /\ arg' = IntArg(7) => ret'[2] = <<>>]_vars

\* the second of two Statement rows returned alone, no Settlement row returned
C11_Witness ==
    /\ pc = "queried"
    /\ arg = ListArg(<<5, 7>>)
    /\ Len(statement_df) = 2
    /\ statement_df[1].Classification = None
    /\ ret[1] = <<statement_df[2]>>
    /\ settlement_df # <<>>
    /\ ret[2] = <<>>

----------------------------------------------------------------------------
(* C12: in reconcile_files the sets both, only_statement and               *)
(* only_settlement are pairwise disjoint, both with only_statement makes   *)
(* up the non-null trimmed partner_pin values of the Statement rows tagged *)
(* Should Reconcile, and both with only_settlement the non-null trimmed    *)
(* match_pin values of the Settlement rows tagged Should Reconcile.        *)
C12_StmtPins ==
    {strip(statement_df[i].PartnerPin.v) : i \in {j \in 1..Len(statement_df) :
        /\ statement_df[j].ReconcileTag = ShouldReconcile
        /\ statement_df[j].PartnerPin # None}}

C12_SettPins ==
    {strip(settlement_df[i].MatchPin.v) : i \in {j \in 1..Len(settlement_df) :
        /\ settlement_df[j].ReconcileTag = ShouldReconcile
        /\ settlement_df[j].MatchPin # None}}

C12_SetsPartition ==
    pc \in {"settlement", "done"} =>
        LET b == both(statement_df, settlement_df)
            st == only_statement(statement_df, settlement_df)
            se == only_settlement(statement_df, settlement_df)
        IN /\ b \cap st = {}
           /\ b \cap se = {}
           /\ st \cap se = {}
           /\ b \cup st = C12_StmtPins
           /\ b \cup se = C12_SettPins

\* one pin matched, one pin in the Statement only
C12_Witness ==
    /\ pc = "done"
    /\ both(statement_df, settlement_df) = {Pin1}
    /\ only_statement(statement_df, settlement_df) = {Pin2}
    /\ only_settlement(statement_df, settlement_df) = {}

----------------------------------------------------------------------------
(* C13: after reconcile_files a row carries a variance exactly when its    *)
(* classification is 5: every row classified 6, 7 or null has variance     *)
(* null, and every row classified 5 has a variance that is a number.       *)
C13_HasVariance(row) == row.Variance # None /\ ~row.Variance.v.nan

C13_VarianceOnlyOnMatched ==
    pc = "done" =>
        /\ \A i \in 1..Len(statement_df) :
            IF statement_df[i].Classification = Some(5)
            THEN C13_HasVariance(statement_df[i])
            ELSE statement_df[i].Variance = None
        /\ \A i \in 1..Len(settlement_df) :
            IF settlement_df[i].Classification = Some(5)
            THEN C13_HasVariance(settlement_df[i])
            ELSE settlement_df[i].Variance = None

\* a matched pair beside a Statement-only row in the same table
C13_Witness ==
    /\ pc = "done"
    /\ \E i, j \in 1..Len(statement_df) :
        /\ statement_df[i].Classification = Some(5)
        /\ statement_df[i].Variance # None
        /\ statement_df[j].Classification = Some(7)
        /\ statement_df[j].Variance = None
    /\ \E i \in 1..Len(settlement_df) :
        /\ settlement_df[i].Classification = Some(5)
        /\ settlement_df[i].Variance # None

====
